---- MODULE Spec2Model ----
(***************************************************************************)
(* Coverage interval engine of reference-based-cactus-constructor.         *)
(*                                                                         *)
(*   src/src/mapping_functions.py          the production pipeline         *)
(*   src/remap_stats/remap_stats_jupyter.py the statistics script          *)
(*                                                                         *)
(* Python dictionaries are functions whose DOMAIN is the set of keys; a    *)
(* defaultdict gains a key only when the code indexes it.  Python tuples   *)
(* and lists are sequences (1-based here, 0-based in the source).          *)
(***************************************************************************)
EXTENDS Integers, Sequences, FiniteSets, TLC

(***************************************************************************)
(* Bounds of the model.                                                    *)
(***************************************************************************)
MaxPos == 5
ShortLen == 1
MaxLines == 2
MaxMapq == 1
MaxContext == 2
MaxMinSize == 3
StatsMaxPos == 3
MaxRemapLines == 2

(***************************************************************************)
(* Generic helpers for dictionaries and lists.                             *)
(***************************************************************************)
EmptyDict == [k \in {} |-> <<>>]

\* d[k] on a defaultdict(list) that is only read
Get(d, k) == IF k \in DOMAIN d THEN d[k] ELSE <<>>

Min(a, b) == IF a < b THEN a ELSE b
Max(a, b) == IF a > b THEN a ELSE b

SeqsUpTo(S, n) == UNION {[1..k -> S] : k \in 0..n}

RECURSIVE SumLengths(_)
SumLengths(coords) ==
    IF coords = <<>> THEN 0
    ELSE (Head(coords)[2] - Head(coords)[1]) + SumLengths(Tail(coords))

(***************************************************************************)
(* sorted(points, key=operator.itemgetter(0, 1)): ascending by position,   *)
(* then by start_bool with False < True (Python orders bools as 0 < 1), so *)
(* at one position a stop point comes before a start point.                *)
(***************************************************************************)
BoolKey(b) == IF b THEN 1 ELSE 0

\* faulty variant: at one position a start point comes before a stop point
KeyLessStartFirst(p, q) ==
    \/ p[1] < q[1]
    \/ p[1] = q[1] /\ BoolKey(p[2]) > BoolKey(q[2])

KeyLess(p, q) ==
    \/ p[1] < q[1]
    \/ p[1] = q[1] /\ BoolKey(p[2]) < BoolKey(q[2])

RECURSIVE InsertSorted(_, _)
InsertSorted(p, s) ==
    IF s = <<>> THEN <<p>>
    ELSE IF KeyLess(p, Head(s)) THEN <<p>> \o s
    ELSE <<Head(s)>> \o InsertSorted(p, Tail(s))

RECURSIVE sorted(_)
sorted(points) ==
    IF points = <<>> THEN <<>>
    ELSE InsertSorted(points[Len(points)], sorted(SubSeq(points, 1, Len(points) - 1)))

(***************************************************************************)
(* The sweep of get_mapping_coverage_coordinates and of                    *)
(* get_coverage_coords_from_coverage_points (the two bodies are the same). *)
(***************************************************************************)
SweepInit == [open_points |-> 0, current_region |-> <<0, 0>>, coords |-> <<>>]

\* faulty variant: the stop of current_region is never moved
SweepStepNoExtend(st, point) ==
    IF point[2]
    THEN LET o == st.open_points + 1
         IN  [open_points |-> o,
              current_region |-> IF o = 1 THEN <<point[1], st.current_region[2]>>
                                 ELSE st.current_region,
              coords |-> st.coords]
    ELSE LET o == st.open_points - 1
         IN  [open_points |-> o,
              current_region |-> st.current_region,
              coords |-> IF o = 0 THEN Append(st.coords, st.current_region)
                         ELSE st.coords]

\* one iteration of "for i in range(len(contig_coverage_points))"
SweepStep(st, point) ==
    LET extended == IF st.open_points # 0
                    THEN <<st.current_region[1], point[1]>>
                    ELSE st.current_region
    IN  IF point[2]
        THEN LET o == st.open_points + 1
             IN  [open_points |-> o,
                  current_region |-> IF o = 1 THEN <<point[1], extended[2]>>
                                     ELSE extended,
                  coords |-> st.coords]
        ELSE LET o == st.open_points - 1
             IN  [open_points |-> o,
                  current_region |-> extended,
                  coords |-> IF o = 0 THEN Append(st.coords, extended)
                             ELSE st.coords]

RECURSIVE SweepFrom(_, _)
SweepFrom(st, points) ==
    IF points = <<>> THEN st
    ELSE SweepFrom(SweepStep(st, Head(points)), Tail(points))

\* the list appended to mapping_coverage_coords[contig_id] for one contig
ContigCoverageCoords(points) == SweepFrom(SweepInit, sorted(points)).coords

\* get_mapping_coverage_coordinates: a key exists only where a region was appended
get_mapping_coverage_coordinates(points_dict) ==
    LET keys == {c \in DOMAIN points_dict : ContigCoverageCoords(points_dict[c]) # <<>>}
    IN  [c \in keys |-> ContigCoverageCoords(points_dict[c])]

(***************************************************************************)
(* get_mapping_coverage_points: every line of the mapping file whose mapq  *)
(* reaches the cutoff appends (start, True) and (stop, False).             *)
(***************************************************************************)
\* faulty variant: a mapq equal to the cutoff is excluded
AdmittedStrict(mapping, mapq_cutoff) == mapping.mapq > mapq_cutoff

Admitted(mapping, mapq_cutoff) == mapping.mapq >= mapq_cutoff

RECURSIVE PointsOfLines(_, _, _)
PointsOfLines(lines, contig_id, mapq_cutoff) ==
    IF lines = <<>> THEN <<>>
    ELSE LET mapping == Head(lines)
             rest == PointsOfLines(Tail(lines), contig_id, mapq_cutoff)
         IN  IF mapping.contig_id = contig_id /\ Admitted(mapping, mapq_cutoff)
             THEN <<<<mapping.start, TRUE>>, <<mapping.stop, FALSE>>>> \o rest
             ELSE rest

get_mapping_coverage_points(lines, mapq_cutoff) ==
    LET keys == {lines[i].contig_id : i \in {j \in 1..Len(lines) :
                                             Admitted(lines[j], mapq_cutoff)}}
    IN  [c \in keys |-> PointsOfLines(lines, c, mapq_cutoff)]

(***************************************************************************)
(* get_poor_mapping_coverage_coordinates (both files: the production one   *)
(* reads the context and the threshold from options, the statistics one    *)
(* takes them as arguments; the bodies are otherwise the same).            *)
(***************************************************************************)
\* faulty variant: a leading region exactly at the threshold is dropped
LeadingPoorCoordsStrict(length, coords, sequence_context, minimum_size_remap) ==
    IF coords[1][1] > 0
    THEN LET stop0 == coords[1][1] + sequence_context
             poor_mapping_stop == IF stop0 > length THEN length ELSE stop0
         IN  IF poor_mapping_stop - 0 > minimum_size_remap
             THEN <<<<0, poor_mapping_stop>>>>
             ELSE <<>>
    ELSE <<>>

\* "if coords[0][0] > 0": the region before the first covered region
LeadingPoorCoords(length, coords, sequence_context, minimum_size_remap) ==
    IF coords[1][1] > 0
    THEN LET stop0 == coords[1][1] + sequence_context
             poor_mapping_stop == IF stop0 > length THEN length ELSE stop0
         IN  IF poor_mapping_stop - 0 >= minimum_size_remap
             THEN <<<<0, poor_mapping_stop>>>>
             ELSE <<>>
    ELSE <<>>

\* faulty variant: the size threshold is not applied
InteriorPoorCoordNoThreshold(length, coords, i, sequence_context, minimum_size_remap) ==
    LET start0 == coords[i][2] - sequence_context
        poor_mapping_start == IF start0 < 0 THEN 0 ELSE start0
        stop0 == coords[i + 1][1] + sequence_context
        poor_mapping_stop == IF stop0 > length THEN length ELSE stop0
    IN  <<<<poor_mapping_start, poor_mapping_stop>>>>

\* one iteration of "for i in range(len(coords) - 1)", regions i and i + 1
InteriorPoorCoord(length, coords, i, sequence_context, minimum_size_remap) ==
    LET start0 == coords[i][2] - sequence_context
        poor_mapping_start == IF start0 < 0 THEN 0 ELSE start0
        stop0 == coords[i + 1][1] + sequence_context
        poor_mapping_stop == IF stop0 > length THEN length ELSE stop0
    IN  IF poor_mapping_stop - poor_mapping_start >= minimum_size_remap
        THEN <<<<poor_mapping_start, poor_mapping_stop>>>>
        ELSE <<>>

RECURSIVE InteriorPoorCoords(_, _, _, _, _)
InteriorPoorCoords(length, coords, i, sequence_context, minimum_size_remap) ==
    IF i > Len(coords) - 1 THEN <<>>
    ELSE InteriorPoorCoord(length, coords, i, sequence_context, minimum_size_remap)
         \o InteriorPoorCoords(length, coords, i + 1, sequence_context, minimum_size_remap)

\* faulty variant: the trailing region is not widened by the context
TrailingPoorCoordsNoContext(length, coords, sequence_context, minimum_size_remap) ==
    IF coords[Len(coords)][2] < length
    THEN IF length - coords[Len(coords)][2] >= minimum_size_remap
         THEN <<<<coords[Len(coords)][2], length>>>>
         ELSE <<>>
    ELSE <<>>

\* "if coords[-1][1] < length": the region after the last covered region
TrailingPoorCoords(length, coords, sequence_context, minimum_size_remap) ==
    IF coords[Len(coords)][2] < length
    THEN LET start0 == coords[Len(coords)][2] - sequence_context
             poor_mapping_start == IF start0 < 0 THEN 0 ELSE start0
         IN  IF length - poor_mapping_start >= minimum_size_remap
             THEN <<<<poor_mapping_start, length>>>>
             ELSE <<>>
    ELSE <<>>

\* faulty variant: the size threshold is applied to the full contig too
FullContigThresholded(length, minimum_size_remap) ==
    IF length >= minimum_size_remap THEN <<<<0, length>>>> ELSE <<>>

\* the else branch: no good mapping region, the full contig is poorly mapped
FullContig(length, minimum_size_remap) == <<<<0, length>>>>

\* everything appended to poor_mapping_coords[contig_id] in one loop iteration
PoorCoordsOfContig(lengths, coords_dict, contig_id, sequence_context, minimum_size_remap) ==
    IF contig_id \in DOMAIN coords_dict
    THEN LeadingPoorCoords(lengths[contig_id], coords_dict[contig_id],
                           sequence_context, minimum_size_remap)
         \o InteriorPoorCoords(lengths[contig_id], coords_dict[contig_id], 1,
                               sequence_context, minimum_size_remap)
         \o TrailingPoorCoords(lengths[contig_id], coords_dict[contig_id],
                               sequence_context, minimum_size_remap)
    ELSE FullContig(lengths[contig_id], minimum_size_remap)

\* "for contig_id in contig_lengths": contigs outside the length table are not visited
get_poor_mapping_coverage_coordinates(lengths, coords_dict, sequence_context, minimum_size_remap) ==
    LET keys == {c \in DOMAIN lengths :
                    PoorCoordsOfContig(lengths, coords_dict, c,
                                       sequence_context, minimum_size_remap) # <<>>}
    IN  [c \in keys |-> PoorCoordsOfContig(lengths, coords_dict, c,
                                           sequence_context, minimum_size_remap)]

(***************************************************************************)
(* The statistics script, remap_stats_jupyter.py.  A line of a mapping     *)
(* file is read as parsed[1] (query), parsed[2], parsed[3], parsed[4]      *)
(* (strand) and parsed[5] (target).                                        *)
(***************************************************************************)
\* faulty variant: the strand is ignored
CoordAsWritten(line) == <<line.first, line.second>>

\* "order of points is flipped depending on strand"
StrandCoord(line) ==
    IF line.strand = "+" THEN <<line.first, line.second>>
    ELSE <<line.second, line.first>>

RECURSIVE CoordsOfLines(_, _, _, _)
CoordsOfLines(lines, query, chroms_in_ref, to_ref) ==
    IF lines = <<>> THEN <<>>
    ELSE LET line == Head(lines)
             rest == CoordsOfLines(Tail(lines), query, chroms_in_ref, to_ref)
         IN  IF line.query = query /\ ((line.target \in chroms_in_ref) = to_ref)
             THEN <<StrandCoord(line)>> \o rest
             ELSE rest

\* one of the two dictionaries get_mapping_coords_from_mapping_files returns
MappingCoordsFromMappingFiles(lines, chroms_in_ref, to_ref) ==
    LET keys == {lines[i].query : i \in {j \in 1..Len(lines) :
                                          (lines[j].target \in chroms_in_ref) = to_ref}}
    IN  [q \in keys |-> CoordsOfLines(lines, q, chroms_in_ref, to_ref)]

RECURSIVE PointsOfCoords(_)
PointsOfCoords(coords_list) ==
    IF coords_list = <<>> THEN <<>>
    ELSE <<<<Head(coords_list)[1], TRUE>>, <<Head(coords_list)[2], FALSE>>>>
         \o PointsOfCoords(Tail(coords_list))

get_coverage_points_from_mapping_coords(mapping_coords) ==
    [seq_id \in DOMAIN mapping_coords |-> PointsOfCoords(mapping_coords[seq_id])]

get_coverage_coords_from_coverage_points(points_dict) ==
    LET keys == {c \in DOMAIN points_dict : ContigCoverageCoords(points_dict[c]) # <<>>}
    IN  [c \in keys |-> ContigCoverageCoords(points_dict[c])]

get_mapping_coverage_lengths_from_coverage_coords(coords_dict) ==
    [contig_id \in DOMAIN coords_dict |-> SumLengths(coords_dict[contig_id])]

get_sequence_lengths_remapped(remapped) ==
    [contig_id \in DOMAIN remapped |-> SumLengths(remapped[contig_id])]

\* d[k] on a defaultdict(int) that is only read
GetLength(d, k) == IF k \in DOMAIN d THEN d[k] ELSE 0

(***************************************************************************)
(* Sequence names.  A name is a sequence of tokens: "_", a decimal digit,  *)
(* or a word without "_"; the words "segment" and "segment1" contain the   *)
(* text "segment".  str(n) writes a number in decimal digits and int(s)    *)
(* reads one, raising ValueError on anything else.                         *)
(***************************************************************************)
Digits == <<"0", "1", "2", "3", "4", "5", "6", "7", "8", "9">>

IsDigit(tok) == \E d \in 1..10 : Digits[d] = tok

DigitValue(tok) == (CHOOSE d \in 1..10 : Digits[d] = tok) - 1

RECURSIVE str(_)
str(n) == IF n < 10 THEN <<Digits[n + 1]>> ELSE str(n \div 10) \o <<Digits[(n % 10) + 1]>>

IsInt(toks) == toks # <<>> /\ \A i \in 1..Len(toks) : IsDigit(toks[i])

RECURSIVE int(_)
int(toks) ==
    IF Len(toks) = 1 THEN DigitValue(toks[1])
    ELSE 10 * int(SubSeq(toks, 1, Len(toks) - 1)) + DigitValue(toks[Len(toks)])

\* "segment" in name
ContainsSegment(name) == \E i \in 1..Len(name) : name[i] \in {"segment", "segment1"}

SegmentSep == <<"_", "segment", "_">>

\* name.split(sep): the pieces between the leftmost non-overlapping occurrences of sep
RECURSIVE split(_, _)
split(name, sep) ==
    LET hits == {i \in 1..(Len(name) - Len(sep) + 1) :
                    SubSeq(name, i, i + Len(sep) - 1) = sep}
    IN  IF hits = {} THEN <<name>>
        ELSE LET i == CHOOSE h \in hits : \A g \in hits : h <= g
             IN  <<SubSeq(name, 1, i - 1)>>
                 \o split(SubSeq(name, i + Len(sep), Len(name)), sep)

\* get_poor_mapping_sequences: the name written for one coord (without the ">")
SequenceName(contig_name, coord) ==
    contig_name \o <<"_", "segment", "_", "start", "_">> \o str(coord[1])
                \o <<"_", "stop", "_">> \o str(coord[2])

RECURSIVE NamesOfCoords(_, _, _)
NamesOfCoords(contig_name, coords, written) ==
    IF coords = <<>> THEN written
    ELSE LET sequence_name == SequenceName(contig_name, Head(coords))
         IN  NamesOfCoords(contig_name, Tail(coords),
                           IF \E i \in 1..Len(written) : written[i] = sequence_name
                           THEN written
                           ELSE Append(written, sequence_name))

RECURSIVE PoorMappingSequences(_, _, _)
PoorMappingSequences(contig_names, poor_coords, written) ==
    IF contig_names = <<>> THEN written
    ELSE PoorMappingSequences(Tail(contig_names), poor_coords,
                              NamesOfCoords(Head(contig_names),
                                            Get(poor_coords, Head(contig_names)), written))

get_poor_mapping_sequences(contig_names, poor_coords) ==
    PoorMappingSequences(contig_names, poor_coords, <<>>)

(***************************************************************************)
(* relocate_remapped_fragments_to_source_contigs.  A line is parsed[0]     *)
(* (name), parsed[2] and parsed[3] (start, stop); the other columns are    *)
(* copied.  RelocateLine is one iteration of "for line in inf".            *)
(***************************************************************************)
RelocateLine(line) ==
    IF ContainsSegment(line.name)
    THEN LET name_parsed == split(line.name, SegmentSep)
         IN  IF Len(name_parsed) < 2
             THEN [error |-> "IndexError", line |-> line]
             ELSE LET fields == split(name_parsed[2], <<"_">>)
                  IN  IF Len(fields) < 3
                      THEN [error |-> "IndexError", line |-> line]
                      ELSE IF ~IsInt(fields[Len(fields) - 2])
                      THEN [error |-> "ValueError", line |-> line]
                      ELSE LET segment_start == int(fields[Len(fields) - 2])
                           IN  [error |-> "none",
                                line |-> [name |-> name_parsed[1],
                                          start |-> segment_start + line.start,
                                          stop |-> segment_start + line.stop]]
    ELSE [error |-> "none", line |-> line]

\* the loop: lines are written until one raises
RECURSIVE RelocateLines(_, _)
RelocateLines(lines, out) ==
    IF lines = <<>> THEN [error |-> "none", out |-> out]
    ELSE LET r == RelocateLine(Head(lines))
         IN  IF r.error # "none" THEN [error |-> r.error, out |-> out]
             ELSE RelocateLines(Tail(lines), Append(out, r.line))

relocate_remapped_fragments_to_source_contigs(lines) == RelocateLines(lines, <<>>)

(***************************************************************************)
(* Inputs of the production pipeline: an assembly (contig -> length), a    *)
(* mapping file of the assembly's contigs (PAF columns 1, 3, 4 and 12) and *)
(* the options.  One larger assembly carries the worked scenario of the    *)
(* specification.                                                          *)
(***************************************************************************)
Contigs == {"c1", "c2"}

SmallAssembly == [c \in Contigs |-> IF c = "c1" THEN MaxPos ELSE ShortLen]

ScenarioAssembly == [c \in {"scn"} |-> 1000]

ScenarioFile ==
    << [contig_id |-> "scn", start |-> 100, stop |-> 200, mapq |-> MaxMapq],
       [contig_id |-> "scn", start |-> 200, stop |-> 350, mapq |-> MaxMapq],
       [contig_id |-> "scn", start |-> 500, stop |-> 600, mapq |-> MaxMapq] >>

ScenarioOptions == [sequence_context |-> 50, minimum_size_remap |-> 100]

MappingLines ==
    {m \in [contig_id : Contigs, start : 0..MaxPos, stop : 0..MaxPos, mapq : 0..MaxMapq] :
        m.start <= m.stop /\ m.stop <= SmallAssembly[m.contig_id]}

MappingFiles == SeqsUpTo(MappingLines, MaxLines) \cup {ScenarioFile}

AssemblyOf(file) == IF file = ScenarioFile THEN ScenarioAssembly ELSE SmallAssembly

\* the length tables a caller may pass: the assembly's, or a part of it
LengthTables(file) ==
    {[c \in D |-> AssemblyOf(file)[c]] : D \in (SUBSET DOMAIN AssemblyOf(file)) \ {{}}}

ContextChoices(file) ==
    IF file = ScenarioFile THEN {ScenarioOptions.sequence_context} ELSE 0..MaxContext

\* the threshold is an int option: a negative one keeps every candidate
MinSizeChoices(file) ==
    IF file = ScenarioFile THEN {ScenarioOptions.minimum_size_remap} ELSE (-1)..MaxMinSize

(***************************************************************************)
(* Inputs of the statistics script: the lines of the mapping files, the    *)
(* reference chromosomes and the lengths of the assemblies' contigs.       *)
(***************************************************************************)
ChromsInRef == {"chr21"}

StatsAssembly == [c \in Contigs |-> StatsMaxPos]

StatsLines ==
    [query : Contigs, first : 0..StatsMaxPos, second : 0..StatsMaxPos,
     strand : {"+", "-"}, target : {"chr21", "c1"}]

StatsFiles == SeqsUpTo(StatsLines, MaxLines)

(***************************************************************************)
(* State.                                                                  *)
(***************************************************************************)
VARIABLES
    pc,                        \* the stage the run has completed
    map_to_ref_file,           \* lines of the mapping file
    mapq_cutoff,               \* options.mapq_cutoff
    sequence_context,          \* options.sequence_context
    minimum_size_remap,        \* options.minimum_size_remap
    contig_lengths,            \* contig_id -> length
    mapping_coverage_points,   \* contig_id -> list of (position, start_bool)
    mapping_coverage_coords,   \* contig_id -> list of (start, stop)
    poor_mapping_coords,       \* contig_id -> list of (start, stop)
    mapping_files,             \* statistics script: lines of the mapping files
    ref_based_mapping_coords,
    all_to_all_mapping_coords,
    ref_based_mapping_coverage_points,
    ref_based_mapping_coverage_coords,
    ref_based_mapping_coverage_lengths,
    all_to_all_mapping_coverage_points,
    all_to_all_mapping_coverage_coords,
    all_to_all_mapping_coverage_lengths,
    remapped_sequence_coords,
    sequence_lengths_remapped,
    poor_mapping_sequence_file, \* names of the fragments written for remapping
    mapping_file,               \* lines of the remapping of the fragments
    modified_mapping_file,      \* lines written by the relocation
    relocate_error              \* the exception the relocation raised, or "none"

optionVars == <<mapq_cutoff, sequence_context, minimum_size_remap, contig_lengths>>

pipelineVars == <<map_to_ref_file, mapping_coverage_points, mapping_coverage_coords,
                  poor_mapping_coords>>

refVars == <<ref_based_mapping_coverage_points, ref_based_mapping_coverage_coords,
             ref_based_mapping_coverage_lengths>>

allToAllVars == <<all_to_all_mapping_coverage_points, all_to_all_mapping_coverage_coords,
                  all_to_all_mapping_coverage_lengths>>

statsVars == <<mapping_files, ref_based_mapping_coords, all_to_all_mapping_coords,
               refVars, allToAllVars, remapped_sequence_coords, sequence_lengths_remapped>>

relocVars == <<poor_mapping_sequence_file, mapping_file, modified_mapping_file,
               relocate_error>>

vars == <<pc, optionVars, pipelineVars, statsVars, relocVars>>

OptionsUnset ==
    /\ mapq_cutoff = 0
    /\ sequence_context = 0
    /\ minimum_size_remap = 0
    /\ contig_lengths = EmptyDict

PipelineIdle ==
    /\ map_to_ref_file = <<>>
    /\ mapping_coverage_points = EmptyDict
    /\ mapping_coverage_coords = EmptyDict
    /\ poor_mapping_coords = EmptyDict

StatsResultsEmpty ==
    /\ ref_based_mapping_coords = EmptyDict
    /\ all_to_all_mapping_coords = EmptyDict
    /\ ref_based_mapping_coverage_points = EmptyDict
    /\ ref_based_mapping_coverage_coords = EmptyDict
    /\ ref_based_mapping_coverage_lengths = EmptyDict
    /\ all_to_all_mapping_coverage_points = EmptyDict
    /\ all_to_all_mapping_coverage_coords = EmptyDict
    /\ all_to_all_mapping_coverage_lengths = EmptyDict
    /\ remapped_sequence_coords = EmptyDict
    /\ sequence_lengths_remapped = EmptyDict

RelocIdle ==
    /\ poor_mapping_sequence_file = <<>>
    /\ mapping_file = <<>>
    /\ modified_mapping_file = <<>>
    /\ relocate_error = "none"

(***************************************************************************)
(* The production pipeline of mapping_functions.py.                        *)
(***************************************************************************)
Init ==
    /\ pc = "start"
    /\ map_to_ref_file \in MappingFiles
    /\ OptionsUnset
    /\ mapping_coverage_points = EmptyDict
    /\ mapping_coverage_coords = EmptyDict
    /\ poor_mapping_coords = EmptyDict
    /\ mapping_files = <<>>
    /\ StatsResultsEmpty
    /\ RelocIdle

GetMappingCoveragePoints ==
    /\ pc = "start"
    /\ \E cutoff \in 0..MaxMapq :
        /\ mapq_cutoff' = cutoff
        /\ mapping_coverage_points' = get_mapping_coverage_points(map_to_ref_file, cutoff)
    /\ pc' = "points"
    /\ UNCHANGED <<map_to_ref_file, sequence_context, minimum_size_remap, contig_lengths,
                   mapping_coverage_coords, poor_mapping_coords, statsVars, relocVars>>

GetMappingCoverageCoordinates ==
    /\ pc = "points"
    /\ mapping_coverage_coords' = get_mapping_coverage_coordinates(mapping_coverage_points)
    /\ pc' = "coords"
    /\ UNCHANGED <<map_to_ref_file, optionVars, mapping_coverage_points,
                   poor_mapping_coords, statsVars, relocVars>>

GetPoorMappingCoverageCoordinates ==
    /\ pc = "coords"
    /\ \E lengths \in LengthTables(map_to_ref_file),
          context \in ContextChoices(map_to_ref_file),
          min_size \in MinSizeChoices(map_to_ref_file) :
        /\ contig_lengths' = lengths
        /\ sequence_context' = context
        /\ minimum_size_remap' = min_size
        /\ poor_mapping_coords' =
              get_poor_mapping_coverage_coordinates(lengths, mapping_coverage_coords,
                                                    context, min_size)
    /\ pc' = "poor"
    /\ UNCHANGED <<map_to_ref_file, mapq_cutoff, mapping_coverage_points,
                   mapping_coverage_coords, statsVars, relocVars>>

Next ==
    \/ GetMappingCoveragePoints
    \/ GetMappingCoverageCoordinates
    \/ GetPoorMappingCoverageCoordinates

Spec == Init /\ [][Next]_vars

(***************************************************************************)
(* get_sequence_coverage of the statistics script, one action per call it  *)
(* makes, in the order of the source.                                      *)
(***************************************************************************)
StatsInit ==
    /\ pc = "stats_start"
    /\ mapping_files \in StatsFiles
    /\ OptionsUnset
    /\ PipelineIdle
    /\ StatsResultsEmpty
    /\ RelocIdle

GetMappingCoordsFromMappingFiles ==
    /\ pc = "stats_start"
    /\ ref_based_mapping_coords' =
          MappingCoordsFromMappingFiles(mapping_files, ChromsInRef, TRUE)
    /\ all_to_all_mapping_coords' =
          MappingCoordsFromMappingFiles(mapping_files, ChromsInRef, FALSE)
    /\ pc' = "mapping_coords"
    /\ UNCHANGED <<optionVars, pipelineVars, mapping_files, refVars, allToAllVars,
                   remapped_sequence_coords, sequence_lengths_remapped, relocVars>>

RefBasedCoveragePoints ==
    /\ pc = "mapping_coords"
    /\ ref_based_mapping_coverage_points' =
          get_coverage_points_from_mapping_coords(ref_based_mapping_coords)
    /\ pc' = "ref_points"
    /\ UNCHANGED <<optionVars, pipelineVars, mapping_files, ref_based_mapping_coords,
                   all_to_all_mapping_coords, ref_based_mapping_coverage_coords,
                   ref_based_mapping_coverage_lengths, allToAllVars,
                   remapped_sequence_coords, sequence_lengths_remapped, relocVars>>

RefBasedCoverageCoords ==
    /\ pc = "ref_points"
    /\ ref_based_mapping_coverage_coords' =
          get_coverage_coords_from_coverage_points(ref_based_mapping_coverage_points)
    /\ pc' = "ref_coords"
    /\ UNCHANGED <<optionVars, pipelineVars, mapping_files, ref_based_mapping_coords,
                   all_to_all_mapping_coords, ref_based_mapping_coverage_points,
                   ref_based_mapping_coverage_lengths, allToAllVars,
                   remapped_sequence_coords, sequence_lengths_remapped, relocVars>>

RefBasedCoverageLengths ==
    /\ pc = "ref_coords"
    /\ ref_based_mapping_coverage_lengths' =
          get_mapping_coverage_lengths_from_coverage_coords(ref_based_mapping_coverage_coords)
    /\ pc' = "ref_lengths"
    /\ UNCHANGED <<optionVars, pipelineVars, mapping_files, ref_based_mapping_coords,
                   all_to_all_mapping_coords, ref_based_mapping_coverage_points,
                   ref_based_mapping_coverage_coords, allToAllVars,
                   remapped_sequence_coords, sequence_lengths_remapped, relocVars>>

AllToAllCoveragePoints ==
    /\ pc = "ref_lengths"
    /\ all_to_all_mapping_coverage_points' =
          get_coverage_points_from_mapping_coords(all_to_all_mapping_coords)
    /\ pc' = "all_to_all_points"
    /\ UNCHANGED <<optionVars, pipelineVars, mapping_files, ref_based_mapping_coords,
                   all_to_all_mapping_coords, refVars, all_to_all_mapping_coverage_coords,
                   all_to_all_mapping_coverage_lengths,
                   remapped_sequence_coords, sequence_lengths_remapped, relocVars>>

AllToAllCoverageCoords ==
    /\ pc = "all_to_all_points"
    /\ all_to_all_mapping_coverage_coords' =
          get_coverage_coords_from_coverage_points(all_to_all_mapping_coverage_points)
    /\ pc' = "all_to_all_coords"
    /\ UNCHANGED <<optionVars, pipelineVars, mapping_files, ref_based_mapping_coords,
                   all_to_all_mapping_coords, refVars, all_to_all_mapping_coverage_points,
                   all_to_all_mapping_coverage_lengths,
                   remapped_sequence_coords, sequence_lengths_remapped, relocVars>>

AllToAllCoverageLengths ==
    /\ pc = "all_to_all_coords"
    /\ all_to_all_mapping_coverage_lengths' =
          get_mapping_coverage_lengths_from_coverage_coords(all_to_all_mapping_coverage_coords)
    /\ pc' = "all_to_all_lengths"
    /\ UNCHANGED <<optionVars, pipelineVars, mapping_files, ref_based_mapping_coords,
                   all_to_all_mapping_coords, refVars, all_to_all_mapping_coverage_points,
                   all_to_all_mapping_coverage_coords,
                   remapped_sequence_coords, sequence_lengths_remapped, relocVars>>

\* the context and the minimum size are the arguments get_sequence_coverage received
RemappedSequenceCoords ==
    /\ pc = "all_to_all_lengths"
    /\ \E context \in 0..MaxContext, min_size \in 0..MaxMinSize :
        /\ contig_lengths' = StatsAssembly
        /\ sequence_context' = context
        /\ minimum_size_remap' = min_size
        /\ remapped_sequence_coords' =
              get_poor_mapping_coverage_coordinates(StatsAssembly,
                                                    ref_based_mapping_coverage_coords,
                                                    context, min_size)
    /\ pc' = "remapped_coords"
    /\ UNCHANGED <<mapq_cutoff, pipelineVars, mapping_files, ref_based_mapping_coords,
                   all_to_all_mapping_coords, refVars, allToAllVars,
                   sequence_lengths_remapped, relocVars>>

SequenceLengthsRemapped ==
    /\ pc = "remapped_coords"
    /\ sequence_lengths_remapped' = get_sequence_lengths_remapped(remapped_sequence_coords)
    /\ pc' = "stats_done"
    /\ UNCHANGED <<optionVars, pipelineVars, mapping_files, ref_based_mapping_coords,
                   all_to_all_mapping_coords, refVars, allToAllVars,
                   remapped_sequence_coords, relocVars>>

StatsNext ==
    \/ GetMappingCoordsFromMappingFiles
    \/ RefBasedCoveragePoints
    \/ RefBasedCoverageCoords
    \/ RefBasedCoverageLengths
    \/ AllToAllCoveragePoints
    \/ AllToAllCoverageCoords
    \/ AllToAllCoverageLengths
    \/ RemappedSequenceCoords
    \/ SequenceLengthsRemapped

SpecStats == StatsInit /\ [][StatsNext]_vars

(***************************************************************************)
(* main of the statistics script: it binds its settings, reads the contig  *)
(* lengths and calls get_sequence_coverage with positional arguments.      *)
(***************************************************************************)
\* "minimum_size_remap = 100" and "sequence_context = 10000", locals of main
main_minimum_size_remap == 100
main_sequence_context == 10000

\* contig_lengths = get_all_contig_lengths(assembly_files)
MainAssembly == [c \in {"c1"} |-> 30000]

MainPositions == {0, 5000, 15000, 15050, 30000}

MainLines ==
    {l \in [query : {"c1"}, first : MainPositions, second : MainPositions,
            strand : {"+"}, target : {"chr21", "c1"}] : l.first <= l.second}

MainFiles == SeqsUpTo(MainLines, MaxLines)

\* the body of get_sequence_coverage, as one value per local it assigns
GetSequenceCoverage(files, chroms_in_ref, lengths, context, min_size) ==
    LET ref_coords == MappingCoordsFromMappingFiles(files, chroms_in_ref, TRUE)
        all_coords == MappingCoordsFromMappingFiles(files, chroms_in_ref, FALSE)
        ref_points == get_coverage_points_from_mapping_coords(ref_coords)
        ref_coverage == get_coverage_coords_from_coverage_points(ref_points)
        all_points == get_coverage_points_from_mapping_coords(all_coords)
        all_coverage == get_coverage_coords_from_coverage_points(all_points)
        remapped == get_poor_mapping_coverage_coordinates(lengths, ref_coverage,
                                                          context, min_size)
    IN  [ref_based_mapping_coords |-> ref_coords,
         all_to_all_mapping_coords |-> all_coords,
         ref_based_mapping_coverage_points |-> ref_points,
         ref_based_mapping_coverage_coords |-> ref_coverage,
         ref_based_mapping_coverage_lengths |->
             get_mapping_coverage_lengths_from_coverage_coords(ref_coverage),
         all_to_all_mapping_coverage_points |-> all_points,
         all_to_all_mapping_coverage_coords |-> all_coverage,
         all_to_all_mapping_coverage_lengths |->
             get_mapping_coverage_lengths_from_coverage_coords(all_coverage),
         remapped_sequence_coords |-> remapped,
         sequence_lengths_remapped |-> get_sequence_lengths_remapped(remapped)]

MainInit ==
    /\ pc = "main_start"
    /\ mapping_files \in MainFiles
    /\ OptionsUnset
    /\ PipelineIdle
    /\ StatsResultsEmpty
    /\ RelocIdle

MainGetAllContigLengths ==
    /\ pc = "main_start"
    /\ contig_lengths' = MainAssembly
    /\ pc' = "main_lengths"
    /\ UNCHANGED <<mapq_cutoff, sequence_context, minimum_size_remap, pipelineVars,
                   statsVars, relocVars>>

\* get_sequence_coverage(mapping_files, assembly_files, chroms_in_ref, contig_lengths,
\*                       minimum_size_remap, sequence_context): the fifth argument is
\* bound to the parameter sequence_context, the sixth to minimum_size_remap
MainGetSequenceCoverage ==
    /\ pc = "main_lengths"
    /\ sequence_context' = main_minimum_size_remap
    /\ minimum_size_remap' = main_sequence_context
    /\ LET r == GetSequenceCoverage(mapping_files, ChromsInRef, contig_lengths,
                                    main_minimum_size_remap, main_sequence_context)
       IN  /\ ref_based_mapping_coords' = r.ref_based_mapping_coords
           /\ all_to_all_mapping_coords' = r.all_to_all_mapping_coords
           /\ ref_based_mapping_coverage_points' = r.ref_based_mapping_coverage_points
           /\ ref_based_mapping_coverage_coords' = r.ref_based_mapping_coverage_coords
           /\ ref_based_mapping_coverage_lengths' = r.ref_based_mapping_coverage_lengths
           /\ all_to_all_mapping_coverage_points' = r.all_to_all_mapping_coverage_points
           /\ all_to_all_mapping_coverage_coords' = r.all_to_all_mapping_coverage_coords
           /\ all_to_all_mapping_coverage_lengths' = r.all_to_all_mapping_coverage_lengths
           /\ remapped_sequence_coords' = r.remapped_sequence_coords
           /\ sequence_lengths_remapped' = r.sequence_lengths_remapped
    /\ pc' = "main_done"
    /\ UNCHANGED <<mapq_cutoff, contig_lengths, pipelineVars, mapping_files, relocVars>>

MainNext ==
    \/ MainGetAllContigLengths
    \/ MainGetSequenceCoverage

SpecMain == MainInit /\ [][MainNext]_vars

(***************************************************************************)
(* Remapping and relocation: fragments of the poorly mapped regions are    *)
(* written under their names, remapped by the external aligner, and the    *)
(* alignments are relocated to the source contigs.                         *)
(***************************************************************************)
AssemblyContigNames ==
    << <<"X">>, <<"ctg", "_", "1">>, <<"a", "_", "segment", "_", "b">>, <<"segment1">> >>

FragmentCoords == {<<3, 12>>, <<100, 200>>}

FragmentCoordLists ==
    {<<>>} \cup {<<g>> : g \in FragmentCoords} \cup {<<g, g>> : g \in FragmentCoords}

PoorCoordDicts ==
    LET names == {AssemblyContigNames[i] : i \in 1..Len(AssemblyContigNames)}
    IN  UNION {[D -> FragmentCoordLists \ {<<>>}] : D \in SUBSET names}

\* names the aligner may also report that were never written as fragments
OtherNames ==
    { <<"chr", "2", "1">>,
      <<"my", "_", "segment", "_", "x">>,
      <<"a", "_", "segment", "_", "1", "_", "2", "_", "3">>,
      <<"a", "_", "segment", "_", "start", "_", "x", "_", "stop", "_", "2">> }

LocalCoords == {<<0, 1>>, <<10, 50>>}

RemapLines(written) ==
    {[name |-> n, start |-> lc[1], stop |-> lc[2]] :
        n \in {written[i] : i \in 1..Len(written)} \cup OtherNames, lc \in LocalCoords}

RelocInit ==
    /\ pc = "reloc_start"
    /\ poor_mapping_coords \in PoorCoordDicts
    /\ OptionsUnset
    /\ map_to_ref_file = <<>>
    /\ mapping_coverage_points = EmptyDict
    /\ mapping_coverage_coords = EmptyDict
    /\ mapping_files = <<>>
    /\ StatsResultsEmpty
    /\ RelocIdle

GetPoorMappingSequences ==
    /\ pc = "reloc_start"
    /\ poor_mapping_sequence_file' =
          get_poor_mapping_sequences(AssemblyContigNames, poor_mapping_coords)
    /\ pc' = "sequences"
    /\ UNCHANGED <<optionVars, pipelineVars, statsVars, mapping_file,
                   modified_mapping_file, relocate_error>>

\* the external aligner: any alignments of the fragments (and of other sequences)
RemapPoorMappingSequences ==
    /\ pc = "sequences"
    /\ mapping_file' \in SeqsUpTo(RemapLines(poor_mapping_sequence_file), MaxRemapLines)
    /\ pc' = "remapped"
    /\ UNCHANGED <<optionVars, pipelineVars, statsVars, poor_mapping_sequence_file,
                   modified_mapping_file, relocate_error>>

RelocateRemappedFragments ==
    /\ pc = "remapped"
    /\ modified_mapping_file' =
          relocate_remapped_fragments_to_source_contigs(mapping_file).out
    /\ relocate_error' = relocate_remapped_fragments_to_source_contigs(mapping_file).error
    /\ pc' = "relocated"
    /\ UNCHANGED <<optionVars, pipelineVars, statsVars, poor_mapping_sequence_file,
                   mapping_file>>

RelocNext ==
    \/ GetPoorMappingSequences
    \/ RemapPoorMappingSequences
    \/ RelocateRemappedFragments

SpecReloc == RelocInit /\ [][RelocNext]_vars

(***************************************************************************)
(* Reference notions the claims are stated with, computed from the inputs  *)
(* alone: the admitted intervals of a contig, point coverage, and the      *)
(* maximal runs of covered positions.                                      *)
(***************************************************************************)
AdmittedIntervals(contig_id) ==
    {<<map_to_ref_file[i].start, map_to_ref_file[i].stop>> :
        i \in {j \in 1..Len(map_to_ref_file) :
                  /\ map_to_ref_file[j].contig_id = contig_id
                  /\ map_to_ref_file[j].mapq >= mapq_cutoff}}

\* position p lies in [start, stop) of at least one interval
CoveredBy(intervals, p) == \E iv \in intervals : iv[1] <= p /\ p < iv[2]

RECURSIVE SortedSeqOf(_)
SortedSeqOf(regions) ==
    IF regions = {} THEN <<>>
    ELSE LET first == CHOOSE r \in regions : \A q \in regions : r[1] <= q[1]
         IN  <<first>> \o SortedSeqOf(regions \ {first})

\* the maximal runs of covered positions, ascending
MaximalRegions(intervals) ==
    LET starts == {iv[1] : iv \in intervals}
        stops == {iv[2] : iv \in intervals}
        runStarts == {s \in starts : CoveredBy(intervals, s) /\ ~CoveredBy(intervals, s - 1)}
        EndOf(s) == CHOOSE e \in stops :
                        /\ e > s
                        /\ ~CoveredBy(intervals, e)
                        /\ \A p \in s..(e - 1) : CoveredBy(intervals, p)
    IN  SortedSeqOf({<<s, EndOf(s)>> : s \in runStarts})

MaximalRegionsDict ==
    LET keys == {c \in DOMAIN AssemblyOf(map_to_ref_file) :
                    MaximalRegions(AdmittedIntervals(c)) # <<>>}
    IN  [c \in keys |-> MaximalRegions(AdmittedIntervals(c))]

Merged == pc \in {"coords", "poor"}

(***************************************************************************)
(* C1: two intervals of one contig that touch (a.stop = b.start, both with *)
(* start < stop) lie in a single emitted coverage region spanning both.    *)
(***************************************************************************)
C1_TouchingIntervalsMerge ==
    Merged =>
        \A c \in DOMAIN AssemblyOf(map_to_ref_file) :
            \A a, b \in AdmittedIntervals(c) :
                (a[1] < a[2] /\ b[1] < b[2] /\ a[2] = b[1]) =>
                    \E i \in 1..Len(Get(mapping_coverage_coords, c)) :
                        /\ mapping_coverage_coords[c][i][1] <= a[1]
                        /\ b[2] <= mapping_coverage_coords[c][i][2]

(***************************************************************************)
(* C2: the coverage regions of every contig are sorted ascending and every *)
(* consecutive pair satisfies R_i.stop < R_(i+1).start.                    *)
(***************************************************************************)
C2_RegionsSortedNonAdjacent ==
    Merged =>
        \A c \in DOMAIN mapping_coverage_coords :
            \A i \in 1..(Len(mapping_coverage_coords[c]) - 1) :
                /\ mapping_coverage_coords[c][i][1] < mapping_coverage_coords[c][i + 1][1]
                /\ mapping_coverage_coords[c][i][2] < mapping_coverage_coords[c][i + 1][1]

(***************************************************************************)
(* C4: the gaps emitted by merger and gap extractor together are the gaps  *)
(* of the maximal merged regions of the interval union; the scenario of    *)
(* length 1000 merges to [(100,350),(500,600)] and emits exactly           *)
(* [(0,150),(300,550),(550,1000)].                                         *)
(***************************************************************************)
C4_GapsOfMaximalRegions ==
    pc = "poor" =>
        /\ poor_mapping_coords =
              get_poor_mapping_coverage_coordinates(contig_lengths, MaximalRegionsDict,
                                                    sequence_context, minimum_size_remap)
        /\ map_to_ref_file = ScenarioFile =>
              /\ Get(mapping_coverage_coords, "scn") = <<<<100, 350>>, <<500, 600>>>>
              /\ Get(poor_mapping_coords, "scn") =
                    <<<<0, 150>>, <<300, 550>>, <<550, 1000>>>>

(***************************************************************************)
(* C5: a contig of the length table without any covered position (no       *)
(* record, only records below the cutoff, only zero-length intervals) gets *)
(* exactly [(0, L)], whatever the context and the minimum size.            *)
(***************************************************************************)
NoCoverage(contig_id) == \A iv \in AdmittedIntervals(contig_id) : iv[1] = iv[2]

C5_FullSequenceFallback ==
    pc = "poor" =>
        \A c \in DOMAIN contig_lengths :
            NoCoverage(c) => Get(poor_mapping_coords, c) = <<<<0, contig_lengths[c]>>>>

C5_Witness ==
    /\ pc = "poor"
    /\ \E c \in DOMAIN contig_lengths :
        /\ NoCoverage(c)
        /\ \E i, j \in 1..Len(map_to_ref_file) :
            /\ map_to_ref_file[i].contig_id = c
            /\ map_to_ref_file[i].mapq < mapq_cutoff
            /\ map_to_ref_file[i].start < map_to_ref_file[i].stop
            /\ map_to_ref_file[j].contig_id = c
            /\ map_to_ref_file[j].mapq >= mapq_cutoff
        /\ contig_lengths[c] < minimum_size_remap
        /\ sequence_context > 0
        /\ Get(poor_mapping_coords, c) = <<<<0, contig_lengths[c]>>>>

(***************************************************************************)
(* C6 as stated: no emitted gap region has start > stop, and every emitted *)
(* gap region has length >= minimum_size_remap.                            *)
(***************************************************************************)
C6_Original ==
    pc = "poor" =>
        \A c \in DOMAIN poor_mapping_coords :
            \A i \in 1..Len(poor_mapping_coords[c]) :
                /\ poor_mapping_coords[c][i][1] <= poor_mapping_coords[c][i][2]
                /\ poor_mapping_coords[c][i][2] - poor_mapping_coords[c][i][1]
                       >= minimum_size_remap

(***************************************************************************)
(* C6 amended: no emitted gap region has start > stop, and every gap       *)
(* region emitted for a contig that has a covered position has length      *)
(* >= minimum_size_remap (the full-sequence fallback is exempt).           *)
(***************************************************************************)
C6_GapsWellFormed ==
    pc = "poor" =>
        \A c \in DOMAIN poor_mapping_coords :
            \A i \in 1..Len(poor_mapping_coords[c]) :
                /\ poor_mapping_coords[c][i][1] <= poor_mapping_coords[c][i][2]
                /\ ~NoCoverage(c) =>
                      poor_mapping_coords[c][i][2] - poor_mapping_coords[c][i][1]
                          >= minimum_size_remap

C6_Witness ==
    /\ pc = "poor"
    /\ minimum_size_remap >= 2
    /\ \E c \in DOMAIN contig_lengths :
        /\ ~NoCoverage(c)
        /\ Len(Get(mapping_coverage_coords, c)) = 2
        /\ Len(Get(poor_mapping_coords, c)) = 2

(***************************************************************************)
(* C7: for a contig with covered regions R_1..R_n the gap extractor        *)
(* returns, in this order and nothing else, the leading candidate          *)
(* (0, min(R_1.start + C, L)) iff R_1.start > 0, the interior candidates   *)
(* (max(R_i.stop - C, 0), min(R_(i+1).start + C, L)) and the trailing      *)
(* candidate (max(R_n.stop - C, 0), L) iff R_n.stop < L, each iff its      *)
(* length is >= M.                                                         *)
(***************************************************************************)
GapCandidates(L, R, C) ==
    LET n == Len(R)
    IN  [k \in 1..(n + 1) |->
            IF k = 1 THEN [exists |-> R[1][1] > 0, gap |-> <<0, Min(R[1][1] + C, L)>>]
            ELSE IF k = n + 1
                 THEN [exists |-> R[n][2] < L, gap |-> <<Max(R[n][2] - C, 0), L>>]
                 ELSE [exists |-> TRUE,
                       gap |-> <<Max(R[k - 1][2] - C, 0), Min(R[k][1] + C, L)>>]]

ExpectedGaps(L, R, C, M) ==
    LET Kept(cand) == cand.exists /\ cand.gap[2] - cand.gap[1] >= M
        kept == SelectSeq(GapCandidates(L, R, C), Kept)
    IN  [k \in 1..Len(kept) |-> kept[k].gap]

C7_GapExtractorContract ==
    pc = "poor" =>
        \A c \in DOMAIN contig_lengths \cap DOMAIN mapping_coverage_coords :
            Get(poor_mapping_coords, c) =
                ExpectedGaps(contig_lengths[c], mapping_coverage_coords[c],
                             sequence_context, minimum_size_remap)

C7_Witness ==
    /\ pc = "poor"
    /\ sequence_context > 0
    /\ \E c \in DOMAIN contig_lengths \cap DOMAIN mapping_coverage_coords :
        /\ Len(mapping_coverage_coords[c]) = 2
        /\ mapping_coverage_coords[c][1][1] > 0
        /\ mapping_coverage_coords[c][2][2] < contig_lengths[c]
        /\ mapping_coverage_coords[c][1][2] < mapping_coverage_coords[c][2][1]
        /\ Len(Get(poor_mapping_coords, c)) \in {1, 2}

(***************************************************************************)
(* Reference notions for the statistics script: the intervals of a query   *)
(* sequence after the strand-aware normalisation (forward keeps            *)
(* (first, second), reverse swaps), by target class.                       *)
(***************************************************************************)
NormalizedInterval(line) ==
    IF line.strand = "-" THEN <<line.second, line.first>> ELSE <<line.first, line.second>>

LinesOf(query, to_ref) ==
    {i \in 1..Len(mapping_files) :
        /\ mapping_files[i].query = query
        /\ (mapping_files[i].target \in ChromsInRef) = to_ref}

IntervalsOf(query, to_ref) ==
    {NormalizedInterval(mapping_files[i]) : i \in LinesOf(query, to_ref)}

WellFormed(intervals) == \A iv \in intervals : iv[1] <= iv[2]

\* brute-force point coverage over the coordinate range
CoveredPositions(intervals) == {p \in 0..StatsMaxPos : CoveredBy(intervals, p)}

RefLengthsDone ==
    pc \in {"ref_lengths", "all_to_all_points", "all_to_all_coords", "all_to_all_lengths",
            "remapped_coords", "stats_done"}

AllToAllLengthsDone == pc \in {"all_to_all_lengths", "remapped_coords", "stats_done"}

(***************************************************************************)
(* C3: for every sequence whose intervals all have start <= stop, the      *)
(* covered length that encoder, merger and length aggregator compute is    *)
(* the number of positions lying in [start, stop) of at least one          *)
(* interval.                                                               *)
(***************************************************************************)
C3_CoveredLengthIsPointCoverage ==
    /\ RefLengthsDone =>
          \A q \in Contigs :
              WellFormed(IntervalsOf(q, TRUE)) =>
                  GetLength(ref_based_mapping_coverage_lengths, q)
                      = Cardinality(CoveredPositions(IntervalsOf(q, TRUE)))
    /\ AllToAllLengthsDone =>
          \A q \in Contigs :
              WellFormed(IntervalsOf(q, FALSE)) =>
                  GetLength(all_to_all_mapping_coverage_lengths, q)
                      = Cardinality(CoveredPositions(IntervalsOf(q, FALSE)))

\* two overlapping intervals, one of them from a reverse-strand record
C3_Witness ==
    /\ RefLengthsDone
    /\ \E q \in Contigs :
        /\ WellFormed(IntervalsOf(q, TRUE))
        /\ \E a, b \in IntervalsOf(q, TRUE) :
            a[1] < b[1] /\ b[1] < a[2] /\ a[2] < b[2]
        /\ \E i \in LinesOf(q, TRUE) : mapping_files[i].strand = "-"
        /\ GetLength(ref_based_mapping_coverage_lengths, q) = StatsMaxPos

(***************************************************************************)
(* C10: a record whose interval has start > stop after the strand-aware    *)
(* normalisation contributes no events to the merger, and the coverage     *)
(* regions are those of the remaining records.                             *)
(***************************************************************************)
RECURSIVE WellFormedCoords(_)
WellFormedCoords(coords) ==
    IF coords = <<>> THEN <<>>
    ELSE IF Head(coords)[1] <= Head(coords)[2]
         THEN <<Head(coords)>> \o WellFormedCoords(Tail(coords))
         ELSE WellFormedCoords(Tail(coords))

RegionsCover(coords) ==
    {p \in 0..StatsMaxPos : \E i \in 1..Len(coords) : coords[i][1] <= p /\ p < coords[i][2]}

C10_MalformedRecordRejected ==
    /\ pc \notin {"stats_start", "mapping_coords"} =>
          \A q \in Contigs :
              Get(ref_based_mapping_coverage_points, q)
                  = PointsOfCoords(WellFormedCoords(Get(ref_based_mapping_coords, q)))
    /\ pc \notin {"stats_start", "mapping_coords", "ref_points"} =>
          \A q \in Contigs :
              RegionsCover(Get(ref_based_mapping_coverage_coords, q))
                  = CoveredPositions({iv \in IntervalsOf(q, TRUE) : iv[1] <= iv[2]})

(***************************************************************************)
(* Reference notion for the relocation: a name of the form                 *)
(* <parentId>_segment_start_<s>_stop_<e>, with a non-empty parentId and    *)
(* decimal <s> and <e>.                                                    *)
(***************************************************************************)
MatchesFragmentPattern(name) ==
    \E i \in 2..(Len(name) - 4), j \in 1..(Len(name) - 2) :
        /\ SubSeq(name, i, i + 4) = <<"_", "segment", "_", "start", "_">>
        /\ j > i + 5
        /\ SubSeq(name, j, j + 2) = <<"_", "stop", "_">>
        /\ IsInt(SubSeq(name, i + 5, j - 1))
        /\ IsInt(SubSeq(name, j + 3, Len(name)))

WrittenFragment(name) ==
    \E k \in 1..Len(poor_mapping_sequence_file) : poor_mapping_sequence_file[k] = name

(***************************************************************************)
(* C8: relocation is the left inverse of fragment extraction: an alignment *)
(* (a, b) on the fragment written for gap (s, e) of parent X is output     *)
(* with subject X and coordinates (s + a, s + b), for every parent id.     *)
(* Stated of the records that only alignments of written fragments         *)
(* precede, so that no record of another kind stops the relocation first.  *)
(***************************************************************************)
C8_RelocationInvertsExtraction ==
    pc = "relocated" =>
        \A i \in 1..Len(mapping_file) :
            \A k \in 1..Len(AssemblyContigNames) :
                \A j \in 1..Len(Get(poor_mapping_coords, AssemblyContigNames[k])) :
                    LET X == AssemblyContigNames[k]
                        coord == poor_mapping_coords[X][j]
                    IN  (/\ mapping_file[i].name = SequenceName(X, coord)
                         /\ \A h \in 1..(i - 1) : WrittenFragment(mapping_file[h].name)) =>
                            /\ Len(modified_mapping_file) >= i
                            /\ modified_mapping_file[i] =
                                  [name |-> X,
                                   start |-> coord[1] + mapping_file[i].start,
                                   stop |-> coord[1] + mapping_file[i].stop]

(***************************************************************************)
(* C9: every record whose subject does not match the fragment pattern is   *)
(* written to the output unchanged, with no error.  Stated of the records  *)
(* that only records of this kind precede.                                 *)
(***************************************************************************)
C9_NonFragmentsPassThrough ==
    pc = "relocated" =>
        \A i \in 1..Len(mapping_file) :
            (\A h \in 1..i : ~MatchesFragmentPattern(mapping_file[h].name)) =>
                /\ Len(modified_mapping_file) >= i
                /\ modified_mapping_file[i] = mapping_file[i]

(***************************************************************************)
(* C11: a contig that has coverage regions but no entry in the length      *)
(* table makes the gap extraction fail: the extraction never returns with  *)
(* such a contig left out of its result.  (pc = "poor" is the state after  *)
(* get_poor_mapping_coverage_coordinates has returned.)                    *)
(***************************************************************************)
C11_MissingLengthSurfaced ==
    pc = "poor" =>
        \A c \in DOMAIN mapping_coverage_coords : c \in DOMAIN contig_lengths

(***************************************************************************)
(* C12: a record whose subject contains the marker _segment_ but not a     *)
(* parsable start_<s>_stop_<e> makes the relocation fail with an error: it *)
(* is never written to the output, unchanged or shifted.                   *)
(***************************************************************************)
ContainsMarker(name) ==
    \E i \in 1..(Len(name) - 2) : SubSeq(name, i, i + 2) = <<"_", "segment", "_">>

MalformedFragmentName(name) == ContainsMarker(name) /\ ~MatchesFragmentPattern(name)

C12_MalformedFragmentNameSurfaced ==
    pc = "relocated" =>
        \A i \in 1..Len(mapping_file) :
            MalformedFragmentName(mapping_file[i].name) =>
                /\ relocate_error # "none"
                /\ Len(modified_mapping_file) < i

(***************************************************************************)
(* C13: merging is idempotent: the region list the sweep outputs for a     *)
(* contig, re-encoded as (start, True), (stop, False) points and swept     *)
(* again, is the same region list.                                         *)
(***************************************************************************)
Remerged(coords) == ContigCoverageCoords(PointsOfCoords(coords))

C13_MergeIdempotent ==
    pc \in {"coords", "poor"} =>
        \A c \in DOMAIN mapping_coverage_coords :
            Remerged(mapping_coverage_coords[c]) = mapping_coverage_coords[c]

\* two mappings overlap on a contig and were merged into one region, and
\* another run left two regions that touch
C13_Witness ==
    /\ pc = "coords"
    /\ \E c \in DOMAIN mapping_coverage_coords :
          \/ /\ Len(mapping_coverage_coords[c]) = 1
             /\ Len(Get(mapping_coverage_points, c)) = 4
             /\ \E i, j \in 1..4 :
                   /\ mapping_coverage_points[c][i][2]
                   /\ ~mapping_coverage_points[c][j][2]
                   /\ mapping_coverage_coords[c][1][1] < mapping_coverage_points[c][i][1]
                   /\ mapping_coverage_points[c][j][1] < mapping_coverage_coords[c][1][2]
          \/ /\ Len(mapping_coverage_coords[c]) = 2
             /\ mapping_coverage_coords[c][1][2] = mapping_coverage_coords[c][2][1]

(***************************************************************************)
(* C14: a line of the mapping file contributes (start, True) and           *)
(* (stop, False) to its contig's point list if and only if its mapq is at  *)
(* least mapq_cutoff; a contig whose lines are all below the cutoff has no *)
(* points and no coverage region.                                          *)
(***************************************************************************)
LinesAtOrAboveCutoff(c) ==
    {i \in 1..Len(map_to_ref_file) :
        map_to_ref_file[i].contig_id = c /\ ~(map_to_ref_file[i].mapq < mapq_cutoff)}

RankAmong(S, i) == Cardinality({j \in S : j <= i})

C14_MapqCutoffAdmission ==
    pc \in {"points", "coords", "poor"} =>
        \A c \in Contigs \cup {"scn"} :
            LET kept == LinesAtOrAboveCutoff(c)
                points == Get(mapping_coverage_points, c)
            IN  /\ Len(points) = 2 * Cardinality(kept)
                /\ \A i \in kept :
                      /\ points[2 * RankAmong(kept, i) - 1] = <<map_to_ref_file[i].start, TRUE>>
                      /\ points[2 * RankAmong(kept, i)] = <<map_to_ref_file[i].stop, FALSE>>
                /\ (kept = {}) => c \notin DOMAIN mapping_coverage_points
                /\ (kept = {} /\ pc # "points") => c \notin DOMAIN mapping_coverage_coords

\* one line exactly at a positive cutoff was admitted, one line of another
\* contig was below it, and the merge has run
C14_Witness ==
    /\ pc = "coords"
    /\ mapq_cutoff > 0
    /\ \E i, j \in 1..Len(map_to_ref_file) :
          /\ map_to_ref_file[i].mapq = mapq_cutoff
          /\ map_to_ref_file[i].start < map_to_ref_file[i].stop
          /\ map_to_ref_file[i].contig_id \in DOMAIN mapping_coverage_coords
          /\ map_to_ref_file[j].mapq < mapq_cutoff
          /\ map_to_ref_file[j].start < map_to_ref_file[j].stop
          /\ map_to_ref_file[j].contig_id \notin DOMAIN mapping_coverage_points

(***************************************************************************)
(* C15: a line with start = stop contributes no coverage: the covered      *)
(* positions and the covered length of its contig are those of the file    *)
(* without that line, and a contig whose admitted lines all have           *)
(* start = stop has an empty coverage region list.                         *)
(***************************************************************************)
WithoutLine(lines, i) == SubSeq(lines, 1, i - 1) \o SubSeq(lines, i + 1, Len(lines))

CoordsOfFile(lines) ==
    get_mapping_coverage_coordinates(get_mapping_coverage_points(lines, mapq_cutoff))

PositionsOf(coords) ==
    {p \in 0..MaxPos : \E k \in 1..Len(coords) : coords[k][1] <= p /\ p < coords[k][2]}

ZeroLengthLines ==
    {i \in 1..Len(map_to_ref_file) : map_to_ref_file[i].start = map_to_ref_file[i].stop}

C15_ZeroLengthNoCoverage ==
    pc \in {"coords", "poor"} =>
        /\ \A i \in ZeroLengthLines :
              LET c == map_to_ref_file[i].contig_id
                  with == Get(mapping_coverage_coords, c)
                  without == Get(CoordsOfFile(WithoutLine(map_to_ref_file, i)), c)
              IN  /\ PositionsOf(with) = PositionsOf(without)
                  /\ SumLengths(with) = SumLengths(without)
        /\ \A c \in Contigs :
              (\A i \in 1..Len(map_to_ref_file) :
                    (map_to_ref_file[i].contig_id = c /\ map_to_ref_file[i].mapq >= mapq_cutoff)
                        => i \in ZeroLengthLines)
                 => Get(mapping_coverage_coords, c) = <<>>

\* an admitted line with start = stop lies strictly inside an admitted mapping
\* of the same contig
C15_Witness ==
    /\ pc = "coords"
    /\ \E i \in ZeroLengthLines, j \in 1..Len(map_to_ref_file) :
          /\ map_to_ref_file[i].mapq >= mapq_cutoff
          /\ map_to_ref_file[j].mapq >= mapq_cutoff
          /\ map_to_ref_file[j].contig_id = map_to_ref_file[i].contig_id
          /\ map_to_ref_file[j].start < map_to_ref_file[i].start
          /\ map_to_ref_file[i].start < map_to_ref_file[j].stop
          /\ map_to_ref_file[i].contig_id \in DOMAIN mapping_coverage_coords

(***************************************************************************)
(* C16: the gap regions main obtains through get_sequence_coverage are     *)
(* those of get_poor_mapping_coverage_coordinates with the context margin  *)
(* main binds (10000) used as padding and the minimum size main binds      *)
(* (100) used as the length threshold.                                     *)
(***************************************************************************)
C16_SettingsInDeclaredRoles ==
    pc = "main_done" =>
        remapped_sequence_coords =
            get_poor_mapping_coverage_coordinates(contig_lengths,
                                                  ref_based_mapping_coverage_coords,
                                                  main_sequence_context,
                                                  main_minimum_size_remap)

(***************************************************************************)
(* C17: gap completeness: on a contig of the length table, every maximal   *)
(* run of positions of [0, L) outside the coverage regions whose length is *)
(* at least minimum_size_remap lies wholly inside one region of            *)
(* poor_mapping_coords.                                                    *)
(***************************************************************************)
InRegions(coords, p) == \E k \in 1..Len(coords) : coords[k][1] <= p /\ p < coords[k][2]

\* the end of the run of positions outside coords that starts at a
RunEnd(coords, length, a) ==
    CHOOSE b \in (a + 1)..length :
        /\ b = length \/ InRegions(coords, b)
        /\ \A p \in a..(b - 1) : ~InRegions(coords, p)

\* the maximal runs [a, b) of [0, length) that no region of coords covers
UncoveredRuns(coords, length) ==
    {<<a, RunEnd(coords, length, a)>> :
        a \in {p \in 0..(length - 1) :
                  ~InRegions(coords, p) /\ (p = 0 \/ InRegions(coords, p - 1))}}

C17_GapCompleteness ==
    pc = "poor" =>
        \A c \in DOMAIN contig_lengths :
            \A run \in UncoveredRuns(Get(mapping_coverage_coords, c), contig_lengths[c]) :
                run[2] - run[1] >= minimum_size_remap =>
                    \E g \in 1..Len(Get(poor_mapping_coords, c)) :
                        /\ poor_mapping_coords[c][g][1] <= run[1]
                        /\ run[2] <= poor_mapping_coords[c][g][2]

\* a covered contig has a leading run exactly at a positive threshold and a
\* later run below it
C17_Witness ==
    /\ pc = "poor"
    /\ minimum_size_remap > 0
    /\ \E c \in DOMAIN contig_lengths \cap DOMAIN mapping_coverage_coords :
          \E r1, r2 \in UncoveredRuns(mapping_coverage_coords[c], contig_lengths[c]) :
              /\ r1[1] = 0
              /\ r1[2] - r1[1] = minimum_size_remap
              /\ r2[1] > r1[2]
              /\ r2[2] - r2[1] < minimum_size_remap

====
